---- MODULE Spec2Model ----
(***************************************************************************)
(* Model of find_optimal_travel_strategy (src/solution.py).                *)
(*                                                                         *)
(* The function is pure; a behaviour of the model is one call.  Init draws *)
(* the two integer arguments from bounded ranges and the actions walk the  *)
(* function body: distance validation, the lane-to-traveler conversion,    *)
(* the low-lane fallback, the minimum-time computation, one action per     *)
(* iteration of the per-person loop, and the final return.  The function's *)
(* locals are the variables, under the names the source gives them.        *)
(***************************************************************************)
EXTENDS Integers, Sequences, FiniteSets, TLC

(* Bounds on the arguments drawn by Init. *)
MaxDistance == 1600
MaxNonPositiveDistance == 2
MaxLanes == 12
MaxNegativeLanes == 5

Distances == (0 - MaxNonPositiveDistance)..MaxDistance
Lanes == (0 - MaxNegativeLanes)..MaxLanes

VARIABLES
    distance_km,          \* argument
    available_lanes,      \* argument
    pc,                   \* position in the function body
    max_people,           \* line 22
    min_time,             \* line 51 (fallback) / line 88
    segments,             \* fallback path: list built at lines 57-69
    i,                    \* loop index of line 110
    remaining_total_dist, \* line 108, updated at line 146
    dist_to_cover,        \* loop local, lines 118-121
    route_segments,       \* loop local, lines 126-139
    assigned,             \* dist_to_cover of every iteration so far, in order
    journey_breakdown,    \* line 97, filled at line 153
    result                \* the returned dict; <<>> until the call returns

vars == <<distance_km, available_lanes, pc, max_people, min_time, segments, i,
          remaining_total_dist, dist_to_cover, route_segments, assigned,
          journey_breakdown, result>>

(***************************************************************************)
(* Helpers                                                                 *)
(***************************************************************************)

(* Python's min(a, b) on integers. *)
Min(a, b) == IF a <= b THEN a ELSE b

(* math.ceil(num / den) for integers num and den # 0.  Python divides in   *)
(* floating point and then rounds up; for the magnitudes of this model the *)
(* quotient is represented closely enough that the result is the exact     *)
(* ceiling of the rational num/den, for either sign of den.                *)
FloorFrac(num, den) ==
    IF den > 0 THEN num \div den ELSE (0 - num) \div (0 - den)

CeilFrac(num, den) ==
    IF den > 0 THEN 0 - ((0 - num) \div den) ELSE 0 - (num \div (0 - den))

(* " + ".join(parts) *)
RECURSIVE Join(_)
Join(parts) ==
    IF parts = <<>> THEN ""
    ELSE IF Len(parts) = 1 THEN parts[1]
    ELSE parts[1] \o " + " \o Join(Tail(parts))

(* f"Person {i}" *)
PersonName(n) == "Person " \o ToString(n)

(* distance_km <= 0, the guard of line 15 *)
InvalidDistanceStrict(d) == d < 0

InvalidDistance(d) == d <= 0

(* available_lanes // 4, line 22 (Python floor division) *)
MaxPeople(lanes) == lanes \div 4

(* The if/elif chain of lines 31-42: the fastest car the lanes allow.      *)
(* Only evaluated for lanes >= 1.                                          *)
FastestCarOffByOne(lanes) ==
    IF lanes > 3 THEN [fastest_car_speed |-> 300, lanes_used |-> 3, car_label |-> "C3"]
    ELSE IF lanes > 2 THEN [fastest_car_speed |-> 200, lanes_used |-> 2, car_label |-> "C2"]
    ELSE [fastest_car_speed |-> 100, lanes_used |-> 1, car_label |-> "C1"]

FastestCar(lanes) ==
    IF lanes >= 3 THEN [fastest_car_speed |-> 300, lanes_used |-> 3, car_label |-> "C3"]
    ELSE IF lanes >= 2 THEN [fastest_car_speed |-> 200, lanes_used |-> 2, car_label |-> "C2"]
    ELSE [fastest_car_speed |-> 100, lanes_used |-> 1, car_label |-> "C1"]

(* The loop of lines 59-61, run n times from (segs, remaining_dist). *)
RECURSIVE SegmentLoop(_, _, _, _, _)
SegmentLoop(n, segs, remaining_dist, car_label, segment_distance) ==
    IF n <= 0 THEN [segments |-> segs, remaining_dist |-> remaining_dist]
    ELSE SegmentLoop(n - 1, Append(segs, car_label),
                     remaining_dist - segment_distance, car_label, segment_distance)

(* Lines 54-69: the fallback traveler's segment list. *)
FallbackSegmentsFullRange(distance, num_segments, car_label, segment_distance) ==
    LET after == SegmentLoop(num_segments, <<>>, distance, car_label, segment_distance)
    IN  Append(after.segments, car_label)

FallbackSegments(distance, num_segments, car_label, segment_distance) ==
    LET after == SegmentLoop(num_segments - 1, <<>>, distance, car_label, segment_distance)
    IN  IF after.remaining_dist > 0 THEN Append(after.segments, car_label)
        ELSE after.segments

(* math.ceil(distance_share / 400) * 400 with distance_share =              *)
(* distance_km / max_people (lines 95 and 118).                            *)
ShareTargetExtraSegment(distance, people) ==
    CeilFrac(distance, people * 400) * 400 + 400

ShareTarget(distance, people) == CeilFrac(distance, people * 400) * 400

(* Lines 118-121. *)
DistToCoverUncapped(remaining, distance, people) ==
    IF remaining <= 0 THEN 0 ELSE ShareTarget(distance, people)

DistToCover(remaining, distance, people) ==
    IF remaining <= 0 THEN 0 ELSE Min(remaining, ShareTarget(distance, people))

(* Lines 129-130: n full C4 segments. *)
FullC4Segments(n) == [k \in 1..n |-> "C4 (400 km)"]

(* Lines 133-139: the segment for the remainder, if it has a class. *)
RemainderSegmentSwapped(remaining_dist_segment) ==
    IF remaining_dist_segment = 100 THEN <<"C1 (100 km)">>
    ELSE IF remaining_dist_segment = 200 THEN <<"C3 (300 km)">>
    ELSE IF remaining_dist_segment = 300 THEN <<"C2 (200 km)">>
    ELSE <<>>

RemainderSegment(remaining_dist_segment) ==
    IF remaining_dist_segment = 100 THEN <<"C1 (100 km)">>
    ELSE IF remaining_dist_segment = 200 THEN <<"C2 (200 km)">>
    ELSE IF remaining_dist_segment = 300 THEN <<"C3 (300 km)">>
    ELSE <<>>

(* Lines 123-139: the route for a distance. *)
RouteSegments(dist) ==
    FullC4Segments(dist \div 400) \o RemainderSegment(dist % 400)

(***************************************************************************)
(* The call                                                                *)
(***************************************************************************)

Init ==
    /\ distance_km \in Distances
    /\ available_lanes \in Lanes
    /\ pc = "start"
    /\ max_people = 0
    /\ min_time = 0
    /\ segments = <<>>
    /\ i = 0
    /\ remaining_total_dist = 0
    /\ dist_to_cover = 0
    /\ route_segments = <<>>
    /\ assigned = <<>>
    /\ journey_breakdown = <<>>
    /\ result = <<>>

(* Lines 15-18. *)
ValidateDistance ==
    /\ pc = "start"
    /\ IF InvalidDistance(distance_km)
       THEN /\ result' = ("Error" :> "Distance must be greater than 0.")
            /\ pc' = "done"
       ELSE /\ result' = result
            /\ pc' = "max_people"
    /\ UNCHANGED <<distance_km, available_lanes, max_people, min_time, segments, i,
                   remaining_total_dist, dist_to_cover, route_segments, assigned,
                   journey_breakdown>>

(* Lines 22-24. *)
CalcMaxPeople ==
    /\ pc = "max_people"
    /\ max_people' = MaxPeople(available_lanes)
    /\ pc' = IF max_people' = 0 THEN "fallback" ELSE "min_time"
    /\ UNCHANGED <<distance_km, available_lanes, min_time, segments, i,
                   remaining_total_dist, dist_to_cover, route_segments, assigned,
                   journey_breakdown, result>>

(* Lines 31-48, the else branch: no car fits. *)
InsufficientLanes ==
    /\ pc = "fallback"
    /\ ~(available_lanes >= 1)
    /\ result' = ("Error" :> "Insufficient lanes. At least 1 lane required to start any journey.")
                 @@ ("Time" :> "N/A")
                 @@ ("People" :> 0)
    /\ pc' = "done"
    /\ UNCHANGED <<distance_km, available_lanes, max_people, min_time, segments, i,
                   remaining_total_dist, dist_to_cover, route_segments, assigned,
                   journey_breakdown>>

(* Lines 31-42 and 50-83: the single traveler of the fallback path. *)
FallbackJourney ==
    /\ pc = "fallback"
    /\ available_lanes >= 1
    /\ LET car == FastestCar(available_lanes)
           t   == CeilFrac(distance_km, car.fastest_car_speed)
           segs == FallbackSegments(distance_km, t, car.car_label, car.fastest_car_speed)
       IN  /\ min_time' = t
           /\ segments' = segs
           /\ result' = ("Optimal Time (hours)" :> t)
                        @@ ("Max People" :> 1)
                        @@ ("Total Distance (km)" :> distance_km)
                        @@ ("Available Lanes" :> available_lanes)
                        @@ ("Journey Breakdown" :>
                              ("Person 1" :>
                                 (("Lanes Reserved" :> car.lanes_used)
                                  @@ ("Route" :> Join(segs))
                                  @@ ("Total Distance Covered" :> distance_km))))
    /\ pc' = "done"
    /\ UNCHANGED <<distance_km, available_lanes, max_people, i,
                   remaining_total_dist, dist_to_cover, route_segments, assigned,
                   journey_breakdown>>

(* Lines 87-108. *)
CalcMinTime ==
    /\ pc = "min_time"
    /\ min_time' = CeilFrac(distance_km, 400 * max_people)
    /\ journey_breakdown' = <<>>
    /\ remaining_total_dist' = distance_km
    /\ i' = 1
    /\ pc' = "loop"
    /\ UNCHANGED <<distance_km, available_lanes, max_people, segments,
                   dist_to_cover, route_segments, assigned, result>>

(* Lines 110-157: one iteration of the per-person loop. *)
LoopBody ==
    /\ pc = "loop"
    /\ i <= max_people
    /\ LET dtc == DistToCover(remaining_total_dist, distance_km, max_people)
           full_c4_segments == dtc \div 400
           remaining_dist_segment == dtc % 400
           route == RouteSegments(dtc)
           total_dist_covered_by_person == full_c4_segments * 400 + remaining_dist_segment
       IN  /\ dist_to_cover' = dtc
           /\ route_segments' = route
           /\ assigned' = Append(assigned, dtc)
           /\ remaining_total_dist' = remaining_total_dist - total_dist_covered_by_person
           /\ journey_breakdown' =
                IF route = <<>> /\ min_time > 0
                THEN journey_breakdown
                ELSE journey_breakdown @@
                       (PersonName(i) :>
                          (("Lanes Reserved" :> 4)
                           @@ ("Route" :> Join(route))
                           @@ ("Total Distance Covered" :> total_dist_covered_by_person)))
    /\ i' = i + 1
    /\ UNCHANGED <<distance_km, available_lanes, pc, max_people, min_time, segments, result>>

(* Lines 159-165, reached when the loop is exhausted. *)
Return ==
    /\ pc = "loop"
    /\ i > max_people
    /\ result' = ("Optimal Time (hours)" :> min_time)
                 @@ ("Max People" :> max_people)
                 @@ ("Total Distance (km)" :> distance_km)
                 @@ ("Available Lanes" :> available_lanes)
                 @@ ("Journey Breakdown" :> journey_breakdown)
    /\ pc' = "done"
    /\ UNCHANGED <<distance_km, available_lanes, max_people, min_time, segments, i,
                   remaining_total_dist, dist_to_cover, route_segments, assigned,
                   journey_breakdown>>

Next ==
    \/ ValidateDistance
    \/ CalcMaxPeople
    \/ InsufficientLanes
    \/ FallbackJourney
    \/ CalcMinTime
    \/ LoopBody
    \/ Return

Spec == Init /\ [][Next]_vars

(***************************************************************************)
(* Vocabulary of the properties                                            *)
(***************************************************************************)

Returned == pc = "done"

Succeeded == Returned /\ "Error" \notin DOMAIN result

(* t is the ceiling of num / den, for den > 0: the least t with den*t >= num. *)
IsCeiling(t, num, den) == den * t >= num /\ den * (t - 1) < num

(* The person whose loop iteration has just finished. *)
LastPerson == PersonName(i - 1)

IterationDone == pc = "loop" /\ i > 1

(* f[1] + ... + f[n] *)
RECURSIVE SumTo(_, _)
SumTo(f, n) == IF n <= 0 THEN 0 ELSE f[n] + SumTo(f, n - 1)

(* Sum of 'Total Distance Covered' over the travelers named in names. *)
RECURSIVE SumCovered(_, _)
SumCovered(jb, names) ==
    IF names = {} THEN 0
    ELSE LET n == CHOOSE x \in names : TRUE
         IN  jb[n]["Total Distance Covered"] + SumCovered(jb, names \ {n})

(* Distance of one route segment: the labelled distance, or the rated      *)
(* speed of the class where the label carries none.                        *)
SegmentDistance(label) ==
    CASE label = "C4 (400 km)" -> 400
      [] label = "C3 (300 km)" -> 300
      [] label = "C2 (200 km)" -> 200
      [] label = "C1 (100 km)" -> 100
      [] label = "C3" -> 300
      [] label = "C2" -> 200
      [] label = "C1" -> 100

RECURSIVE SumSegments(_)
SumSegments(segs) ==
    IF segs = <<>> THEN 0 ELSE SegmentDistance(Head(segs)) + SumSegments(Tail(segs))

(* n repetitions of one label *)
Repeat(label, n) == [k \in 1..n |-> label]

(* Largest minus smallest of f[1..n], n >= 1. *)
Spread(f, n) ==
    LET hi == CHOOSE k \in 1..n : \A j \in 1..n : f[j] <= f[k]
        lo == CHOOSE k \in 1..n : \A j \in 1..n : f[k] <= f[j]
    IN  f[hi] - f[lo]

(***************************************************************************)
(* C1                                                                      *)
(***************************************************************************)

(* C1: for distance > 0 and lanes >= 4 the call succeeds, 'Max People' is  *)
(* floor(lanes / 4) and 'Optimal Time (hours)' is                          *)
(* ceil(distance / (400 * floor(lanes / 4))).                              *)
C1_MaxPeopleAndOptimalTime ==
    (Returned /\ distance_km > 0 /\ available_lanes >= 4) =>
        /\ Succeeded
        /\ LET p == result["Max People"]
               t == result["Optimal Time (hours)"]
           IN  /\ 4 * p <= available_lanes
               /\ available_lanes < 4 * (p + 1)
               /\ IsCeiling(t, distance_km, 400 * p)

C1_Witness ==
    /\ Returned
    /\ distance_km = 1500
    /\ available_lanes = 6
    /\ result["Max People"] = 1
    /\ result["Optimal Time (hours)"] = 4

(***************************************************************************)
(* C2                                                                      *)
(***************************************************************************)

(* C2: in every success result, on the multi-traveler path and on the      *)
(* fallback path, the 'Total Distance Covered' of the travelers present in *)
(* 'Journey Breakdown' sum to 'Total Distance (km)'.                       *)
C2_CoveredSumsToDistance ==
    (Returned /\ distance_km > 0 /\ available_lanes >= 1) =>
        /\ Succeeded
        /\ LET jb == result["Journey Breakdown"]
           IN  SumCovered(jb, DOMAIN jb) = result["Total Distance (km)"]

(***************************************************************************)
(* C3                                                                      *)
(***************************************************************************)

(* C3: for every traveler present in 'Journey Breakdown', the distances of *)
(* the segments of the traveler's route sum to the traveler's 'Total       *)
(* Distance Covered'.                                                      *)
C3_RouteSumsToCovered ==
    /\ (IterationDone /\ LastPerson \in DOMAIN journey_breakdown) =>
          /\ journey_breakdown[LastPerson]["Route"] = Join(route_segments)
          /\ SumSegments(route_segments)
               = journey_breakdown[LastPerson]["Total Distance Covered"]
    /\ (Returned /\ distance_km > 0 /\ available_lanes \in 1..3) =>
          /\ result["Journey Breakdown"]["Person 1"]["Route"] = Join(segments)
          /\ SumSegments(segments)
               = result["Journey Breakdown"]["Person 1"]["Total Distance Covered"]

(***************************************************************************)
(* C4                                                                      *)
(***************************************************************************)

(* C4: for distance > 0 and lanes < 1, zero or negative, the call returns  *)
(* the InsufficientLanes failure: an 'Error' message, 'Time' "N/A",        *)
(* 'People' 0 and nothing else.                                            *)
C4_InsufficientLanesFailure ==
    (Returned /\ distance_km > 0 /\ available_lanes < 1) =>
        /\ DOMAIN result = {"Error", "Time", "People"}
        /\ result["Error"] = "Insufficient lanes. At least 1 lane required to start any journey."
        /\ result["Time"] = "N/A"
        /\ result["People"] = 0

(***************************************************************************)
(* C5                                                                      *)
(***************************************************************************)

(* C5: for distance <= 0 and any lanes the call returns the                *)
(* InvalidDistance failure, a result with the 'Error' field only; the      *)
(* distance check comes before the lane check.                             *)
C5_InvalidDistanceFailure ==
    (Returned /\ distance_km <= 0) =>
        /\ DOMAIN result = {"Error"}
        /\ result["Error"] = "Distance must be greater than 0."

C5_Witness ==
    /\ Returned
    /\ distance_km = 0
    /\ available_lanes < 1
    /\ DOMAIN result = {"Error"}

(***************************************************************************)
(* C6                                                                      *)
(***************************************************************************)

(* C6: for distance > 0 and lanes in 1..3 the result has 'Max People' 1    *)
(* and the single traveler 'Person 1', who drives class C<lanes> with      *)
(* 'Lanes Reserved' = lanes; 'Optimal Time (hours)' is                     *)
(* ceil(distance / (100 * lanes)) and the route is that many repetitions   *)
(* of the class label.                                                     *)
C6_FallbackSingleTraveler ==
    (Returned /\ distance_km > 0 /\ available_lanes \in 1..3) =>
        /\ Succeeded
        /\ LET t == result["Optimal Time (hours)"]
               jb == result["Journey Breakdown"]
               label == "C" \o ToString(available_lanes)
           IN  /\ result["Max People"] = 1
               /\ DOMAIN jb = {"Person 1"}
               /\ jb["Person 1"]["Lanes Reserved"] = available_lanes
               /\ IsCeiling(t, distance_km, 100 * available_lanes)
               /\ segments = Repeat(label, t)
               /\ jb["Person 1"]["Route"] = Join(Repeat(label, t))

C6_Witness ==
    /\ Returned
    /\ distance_km = 100
    /\ available_lanes = 2
    /\ result["Optimal Time (hours)"] = 1
    /\ result["Journey Breakdown"]["Person 1"]["Route"] = "C2"
    /\ result["Journey Breakdown"]["Person 1"]["Lanes Reserved"] = 2

(***************************************************************************)
(* C7                                                                      *)
(***************************************************************************)

(* C7, as stated: for distance > 0 and lanes >= 4, no assignment of        *)
(* non-negative multiples of 100 km to the travelers that sums to distance *)
(* has a smaller difference between its largest and smallest share than    *)
(* the assignment the function makes.                                      *)
C7_EvenSplit ==
    (Returned /\ distance_km > 0 /\ available_lanes >= 4) =>
        \A alt \in [1..max_people -> {100 * k : k \in 0..(distance_km \div 100)}] :
            SumTo(alt, max_people) = distance_km =>
                Spread(alt, max_people) >= Spread(assigned, max_people)

(* C7, amended: the split is greedy in index order.  With target =          *)
(* 400 * 'Optimal Time (hours)', every traveler is assigned between 0 and  *)
(* target, a traveler is assigned less than target only if every later     *)
(* traveler is assigned 0, and the assigned distances sum to distance.     *)
C7_GreedySplit ==
    (Returned /\ distance_km > 0 /\ available_lanes >= 4) =>
        LET p == result["Max People"]
            target == 400 * result["Optimal Time (hours)"]
        IN  /\ Len(assigned) = p
            /\ \A k \in 1..p : 0 <= assigned[k] /\ assigned[k] <= target
            /\ \A k \in 1..p : \A j \in (k + 1)..p :
                   assigned[k] < target => assigned[j] = 0
            /\ SumTo(assigned, p) = distance_km

C7_Witness ==
    /\ Returned
    /\ distance_km = 1200
    /\ available_lanes = 8
    /\ result["Optimal Time (hours)"] = 2
    /\ assigned = <<800, 400>>

(***************************************************************************)
(* C8                                                                      *)
(***************************************************************************)

(* The route C8 describes for an assigned distance a. *)
ExpectedRoute(a) ==
    LET n == a \div 400
        r == a - 400 * n
        extra == IF r \in {100, 200, 300} THEN 1 ELSE 0
    IN  [k \in 1..(n + extra) |->
            IF k <= n THEN "C4 (400 km)"
            ELSE IF r = 100 THEN "C1 (100 km)"
            ELSE IF r = 200 THEN "C2 (200 km)"
            ELSE "C3 (300 km)"]

(* C8: on the multi-traveler path every traveler is assigned               *)
(* a = min(remainingDistance, 400 * ceil(distance / (400 * travelers)))    *)
(* and the traveler's route is floor(a / 400) 'C4 (400 km)' segments, then *)
(* one 'C1 (100 km)', 'C2 (200 km)' or 'C3 (300 km)' segment when a mod    *)
(* 400 is 100, 200 or 300, and nothing else.                               *)
C8_RouteShape ==
    (IterationDone /\ distance_km > 0 /\ available_lanes >= 4) =>
        LET a == assigned[i - 1]
            before == distance_km - SumTo(assigned, i - 2)
        IN  /\ a = dist_to_cover
            /\ \E t \in 1..distance_km :
                   /\ IsCeiling(t, distance_km, 400 * max_people)
                   /\ a = Min(before, 400 * t)
            /\ route_segments = ExpectedRoute(a)
            /\ LastPerson \in DOMAIN journey_breakdown =>
                   journey_breakdown[LastPerson]["Route"] = Join(ExpectedRoute(a))

C8_Witness ==
    /\ IterationDone
    /\ distance_km = 1000
    /\ available_lanes = 4
    /\ dist_to_cover = 1000
    /\ journey_breakdown["Person 1"]["Route"] = "C4 (400 km) + C4 (400 km) + C2 (200 km)"

(***************************************************************************)
(* C9                                                                      *)
(***************************************************************************)

(* C9: for lanes >= 4 and distance > 0 an exact multiple of                *)
(* 400 * floor(lanes / 4), every traveler 'Person 1' .. 'Person P' is in   *)
(* 'Journey Breakdown' with the same route of 'Optimal Time (hours)'       *)
(* segments, all 'C4 (400 km)', and 'Total Distance Covered' =             *)
(* distance / P.                                                           *)
C9_ExactMultipleIdenticalRoutes ==
    (/\ Returned
     /\ distance_km > 0
     /\ available_lanes >= 4
     /\ \E m \in 1..distance_km :
            distance_km = m * 400 * (available_lanes \div 4)) =>
        /\ Succeeded
        /\ LET P == available_lanes \div 4
               t == result["Optimal Time (hours)"]
               jb == result["Journey Breakdown"]
           IN  /\ DOMAIN jb = {PersonName(k) : k \in 1..P}
               /\ \A k \in 1..P :
                      /\ jb[PersonName(k)]["Route"] = Join(Repeat("C4 (400 km)", t))
                      /\ jb[PersonName(k)]["Total Distance Covered"] * P = distance_km

C9_Witness ==
    /\ Returned
    /\ distance_km = 800
    /\ available_lanes = 8
    /\ result["Optimal Time (hours)"] = 1
    /\ result["Journey Breakdown"]["Person 1"]["Route"] = "C4 (400 km)"
    /\ result["Journey Breakdown"]["Person 2"]["Route"] = "C4 (400 km)"

(***************************************************************************)
(* C10                                                                     *)
(***************************************************************************)

(* C10: in every success result (distance > 0, lanes >= 1) no traveler's   *)
(* route has more segments than 'Optimal Time (hours)'.                    *)
C10_RouteFitsOptimalTime ==
    /\ (IterationDone /\ distance_km > 0 /\ available_lanes >= 4) =>
          /\ Len(route_segments) <= min_time
          /\ LastPerson \in DOMAIN journey_breakdown =>
                 journey_breakdown[LastPerson]["Route"] = Join(route_segments)
    /\ (Returned /\ distance_km > 0 /\ available_lanes >= 4) =>
          /\ result["Optimal Time (hours)"] = min_time
          /\ result["Journey Breakdown"] = journey_breakdown
    /\ (Returned /\ distance_km > 0 /\ available_lanes \in 1..3) =>
          /\ Len(segments) <= result["Optimal Time (hours)"]
          /\ result["Journey Breakdown"]["Person 1"]["Route"] = Join(segments)

C10_Witness ==
    /\ Returned
    /\ distance_km = 250
    /\ available_lanes = 2
    /\ segments = <<"C2", "C2">>
    /\ result["Optimal Time (hours)"] = 2

====
